---- MODULE Spec2Model ----
(***************************************************************************)
(* Model of the VoxelEngine asset scripts:                                 *)
(*   Tools/generate_crack_sprites.py  (SpecCrack)                          *)
(*   Tools/generate_textures.py       (SpecTextures)                       *)
(*   Tools/assign_textures.py         (SpecAssign)                         *)
(*   update_block_registry.py         (SpecRegistry)                       *)
(*   generate_block_assets.py, then Tools/assign_textures.py               *)
(*                                    (SpecGenerateAssign)                 *)
(* Each script is a single-threaded program; its loops are modelled one    *)
(* iteration per step, its files as values held in variables.              *)
(***************************************************************************)
EXTENDS Integers, Sequences, FiniteSets, TLC

VARIABLES
    \* ---- generate_crack_sprites.py
    cpc,            \* position in generate_full_crack_pattern / generate_crack_sprites
    caller,         \* "sprites": called from generate_crack_sprites; "direct": called alone
    mode,           \* "seeded": outcomes of one generator run; "any": every outcome
    rng,            \* state of the random generator after random.seed(seed)
    width, height,  \* arguments of generate_full_crack_pattern
    origins,        \* list of origins
    ordered_pixels, \* list of pixels in order of appearance
    visited,        \* set of pixels
    oi,             \* index of the origin being walked (1-based)
    x, y, step,     \* walk position and step counter
    all_pixels,     \* the shuffled list of all pixels
    si,             \* shuffle index i of random.shuffle (0-based, counts down)
    fi,             \* number of entries of all_pixels already iterated by the fill
    pattern,        \* value returned by generate_full_crack_pattern
    stage,          \* loop variable of generate_crack_sprites
    sprites,        \* sprites[k+1]: the image saved as crack_stage_k.png
    \* ---- generate_textures.py
    tpc,            \* position in generate_textures
    ti,             \* number of TEXTURES entries already processed
    tile,           \* the tile create_tile is filling: pixel -> RGBA
    tx,             \* loop variable x of create_tile
    individual,     \* the tile files saved: <<index, suffix>> of tile_<index>_<suffix>.png
    block_atlas,    \* the atlas image: painted pixel -> RGBA (the others are transparent)
    pasted,         \* the paste calls made: <<index, atlas_x, atlas_y>>
    \* ---- update_block_registry.py
    rpc,            \* position in the script
    scene,          \* text of SampleScene.unity
    scene0,         \* text of SampleScene.unity before the first run
    lines,          \* the list lines
    ri,             \* loop variable i
    runs,           \* number of completed runs of the script
    \* ---- Tools/assign_textures.py
    apc,            \* position in main
    textures,       \* the tiles whose texture file exists in TEXTURES_DIR
    metas,          \* the .meta files of TEXTURES_DIR: tile -> text
    guid_map,       \* tile index -> GUID
    gi,             \* number of TILE_FILES entries build_guid_map has processed
    error,          \* the uncaught exception that ended the run, "" when none
    stdout,         \* what main and update_asset printed: <<message, subject>>
    assets,         \* the files of BLOCKS_DIR: file name -> text
    fidx,           \* number of directory entries main has processed
    updated,        \* counter updated
    skipped,        \* counter skipped
    aruns,          \* number of completed runs of main
    written,        \* the files update_asset opened for writing in this run
    \* ---- generate_block_assets.py
    gpc,            \* position in the script
    bi,             \* number of (block, guid) pairs the write loop has processed
    gerror,         \* the uncaught exception that ended the run, "" when none
    gruns           \* number of runs of the script that have ended

crackVars == <<cpc, caller, mode, rng, width, height, origins, ordered_pixels,
               visited, oi, x, y, step, all_pixels, si, fi, pattern, stage, sprites>>

texVars == <<tpc, ti, tile, tx, individual, block_atlas, pasted>>

regVars == <<rpc, scene, scene0, lines, ri, runs>>

assignVars == <<apc, textures, metas, guid_map, gi, error, stdout, assets,
                fidx, updated, skipped, aruns, written>>

genVars == <<gpc, bi, gerror, gruns>>

vars == <<crackVars, texVars, regVars, assignVars, genVars>>

\* the variables of the other scripts
notCrack == <<texVars, regVars, assignVars, genVars>>
notTex == <<crackVars, regVars, assignVars, genVars>>
notReg == <<crackVars, texVars, assignVars, genVars>>
notAssign == <<crackVars, texVars, regVars, genVars>>
notGenAssign == <<crackVars, texVars, regVars>>

(***************************************************************************)
(* Bounds of the model                                                     *)
(***************************************************************************)
\* number of generator seeds explored in the 16x16 runs
NumSeeds == 3
\* largest width*height explored with every outcome of every random call
MaxPixels == 4
\* the scene files hold up to 7 + MaxExtraEntries entries in their definitions list
MaxExtraEntries == 1
\* number of times a script is run on the files it left
MaxRuns == 2
\* number of texture files of TILE_FILES that may be absent
MaxAbsent == 1

Min(a, b) == IF a < b THEN a ELSE b
Max(a, b) == IF a > b THEN a ELSE b

(***************************************************************************)
(* The random module.  random.seed(seed) fixes the generator; every call   *)
(* advances it.  In mode "seeded" the generator is a linear congruential   *)
(* one, in mode "any" a call may return every value of its range.          *)
(***************************************************************************)
NextRng(r) == (r * 25173 + 13849) % 65536

\* random.randrange(n): the set of <<value, generator state after the call>>
RandBelow(r, n) ==
    IF mode = "any"
    THEN { <<v, r>> : v \in 0..(n - 1) }
    ELSE { <<(NextRng(r) \div 16) % n, NextRng(r)>> }

\* random.randint(a, b)
RandInt(r, a, b) == { <<a + d[1], d[2]>> : d \in RandBelow(r, b - a + 1) }

\* random.choice(seq)
RandChoice(r, seq) == { <<seq[d[1] + 1], d[2]>> : d \in RandBelow(r, Len(seq)) }

(***************************************************************************)
(* generate_full_crack_pattern(width, height, seed)                        *)
(***************************************************************************)
StepDeltas == <<-1, -1, 0, 0, 1, 1, 1>>
ZeroFix == <<-1, 1>>
BranchDeltas == <<-2, -1, 1, 2>>

\* max(0, min(limit - 1, v))
Clamp(v, limit) == Max(0, Min(limit - 1, v))

walk_length == (width * height) \div 2

\* [(px, py) for px in range(width) for py in range(height)]
AllPixelsList(w, h) == [k \in 1..(w * h) |-> <<(k - 1) \div h, (k - 1) % h>>]

\* origin of one loop iteration, given the side drawn and the coordinate drawn
OriginOf(side, c) ==
    IF side = 0 THEN <<c, 0>>
    ELSE IF side = 1 THEN <<c, height - 1>>
    ELSE IF side = 2 THEN <<0, c>>
    ELSE <<width - 1, c>>

\* for _ in range(4): one iteration
ChooseOrigin ==
    /\ cpc = "origins"
    /\ Len(origins) < 4
    /\ \E s \in RandInt(rng, 0, 3) :
         \E c \in RandInt(s[2], 0, (IF s[1] \in {0, 1} THEN width ELSE height) - 1) :
            /\ origins' = Append(origins, OriginOf(s[1], c[1]))
            /\ rng' = c[2]
    /\ UNCHANGED <<cpc, caller, mode, width, height, ordered_pixels, visited, oi,
                   x, y, step, all_pixels, si, fi, pattern, stage, sprites>>
    /\ UNCHANGED notCrack

\* for ox, oy in origins: x, y = ox, oy (entering the next walk, or leaving the loop)
BeginWalk ==
    /\ \/ cpc = "origins" /\ Len(origins) = 4
       \/ cpc = "walk" /\ step = walk_length
    /\ IF oi < Len(origins)
       THEN /\ oi' = oi + 1
            /\ x' = origins[oi + 1][1]
            /\ y' = origins[oi + 1][2]
            /\ step' = 0
            /\ cpc' = "walk"
            /\ UNCHANGED <<all_pixels, si>>
       ELSE /\ all_pixels' = AllPixelsList(width, height)
            /\ si' = width * height - 1
            /\ cpc' = "shuffle"
            /\ UNCHANGED <<oi, x, y, step>>
    /\ UNCHANGED <<caller, mode, rng, width, height, origins, ordered_pixels,
                   visited, fi, pattern, stage, sprites>>
    /\ UNCHANGED notCrack

\* visited / ordered_pixels after "if p not in visited: add, append"
VisitSet(vis, p) == vis \cup {p}
VisitList(vis, ord, p) == IF p \in vis THEN ord ELSE Append(ord, p)

\* the rest of one walk iteration once dx, dy are settled (lines 46-55)
WalkMove(dx, dy, r) ==
    LET nx == Clamp(x + dx, width)
        ny == Clamp(y + dy, height)
        vis1 == VisitSet(visited, <<x, y>>)
        ord1 == VisitList(visited, ordered_pixels, <<x, y>>)
    IN  /\ x' = nx
        /\ y' = ny
        /\ step' = step + 1
        /\ IF step > 0 /\ step % 12 = 0
           THEN \E bx \in RandChoice(r, BranchDeltas) :
                  \E by \in RandChoice(bx[2], BranchDeltas) :
                     LET b == <<Clamp(nx + bx[1], width), Clamp(ny + by[1], height)>>
                     IN  /\ visited' = VisitSet(vis1, b)
                         /\ ordered_pixels' = VisitList(vis1, ord1, b)
                         /\ rng' = by[2]
           ELSE /\ visited' = vis1
                /\ ordered_pixels' = ord1
                /\ rng' = r

\* for step in range(walk_length): one iteration
WalkStep ==
    /\ cpc = "walk"
    /\ step < walk_length
    /\ \E dx \in RandChoice(rng, StepDeltas) :
         \E dy \in RandChoice(dx[2], StepDeltas) :
            IF dx[1] = 0 /\ dy[1] = 0
            THEN \E fx \in RandChoice(dy[2], ZeroFix) : WalkMove(fx[1], dy[1], fx[2])
            ELSE WalkMove(dx[1], dy[1], dy[2])
    /\ UNCHANGED <<cpc, caller, mode, width, height, origins, oi, all_pixels, si,
                   fi, pattern, stage, sprites>>
    /\ UNCHANGED notCrack

\* x[i], x[j] = x[j], x[i]
Swap(seq, i, j) == [seq EXCEPT ![i] = seq[j], ![j] = seq[i]]

\* random.shuffle(all_pixels): for i in reversed(range(1, len(x))): j = randbelow(i + 1)
ShuffleStep ==
    /\ cpc = "shuffle"
    /\ si >= 1
    /\ \E j \in RandBelow(rng, si + 1) :
         /\ all_pixels' = Swap(all_pixels, si + 1, j[1] + 1)
         /\ rng' = j[2]
    /\ si' = si - 1
    /\ UNCHANGED <<cpc, caller, mode, width, height, origins, ordered_pixels, visited,
                   oi, x, y, step, fi, pattern, stage, sprites>>
    /\ UNCHANGED notCrack

ShuffleDone ==
    /\ cpc = "shuffle"
    /\ si < 1
    /\ cpc' = "fill"
    /\ fi' = 0
    /\ UNCHANGED <<caller, mode, rng, width, height, origins, ordered_pixels, visited,
                   oi, x, y, step, all_pixels, si, pattern, stage, sprites>>
    /\ UNCHANGED notCrack

\* FillList without the test "p not in visited"
FillListNoCheck(vis, ord, p) == Append(ord, p)

\* the list after "if p not in visited: ordered_pixels.append(p)"
FillList(vis, ord, p) == IF p \in vis THEN ord ELSE Append(ord, p)

\* for p in all_pixels: one iteration
FillStep ==
    /\ cpc = "fill"
    /\ fi < Len(all_pixels)
    /\ ordered_pixels' = FillList(visited, ordered_pixels, all_pixels[fi + 1])
    /\ fi' = fi + 1
    /\ UNCHANGED <<cpc, caller, mode, rng, width, height, origins, visited, oi, x, y,
                   step, all_pixels, si, pattern, stage, sprites>>
    /\ UNCHANGED notCrack

\* return ordered_pixels
ReturnPattern ==
    /\ cpc = "fill"
    /\ fi = Len(all_pixels)
    /\ pattern' = ordered_pixels
    /\ cpc' = IF caller = "sprites" THEN "stages" ELSE "returned"
    /\ stage' = 0
    /\ UNCHANGED <<caller, mode, rng, width, height, origins, ordered_pixels, visited,
                   oi, x, y, step, all_pixels, si, fi, sprites>>
    /\ UNCHANGED notCrack

(***************************************************************************)
(* generate_crack_sprites(output_dir)                                      *)
(***************************************************************************)
SpriteWidth == 16
SpriteHeight == 16
NumStages == 10

\* the percentages of line 79, in hundredths
StagePct == <<6, 10, 15, 21, 28, 35, 42, 50, 58, 65>>

\* StageCoverageOf with round() in place of int()
StageCoverageRounded(total, pct) == (total * pct + 50) \div 100

\* int(total_pixels * pct); the products 256 * pct are at least 0.36 away from
\* an integer or exact (0.50), so the float product truncates as the quotient
StageCoverageOf(total, pct) == (total * pct) \div 100

stage_coverage == [k \in 1..Len(StagePct) |-> StageCoverageOf(width * height, StagePct[k])]

\* min(255, 120 + stage * 15)
CrackAlpha(s) == Min(255, 120 + s * 15)

PixelsOf(w, h) == (0..(w - 1)) \X (0..(h - 1))

\* range(min(num_pixels, len(pattern)))
PaintCount(num_pixels, pat) == Min(num_pixels, Len(pat))

\* PaintImage with the putpixel call after the loop instead of inside it
PaintImageLastOnly(pat, n, alpha) ==
    [p \in PixelsOf(width, height) |-> IF n >= 1 /\ pat[n] = p THEN alpha ELSE 0]

\* Image.new(..., (0, 0, 0, 0)) followed by the putpixel loop: alpha of each pixel
PaintImage(pat, n, alpha) ==
    [p \in PixelsOf(width, height) |->
        IF \E i \in 1..n : pat[i] = p THEN alpha ELSE 0]

\* for stage in range(10): one iteration, img.save included
SaveStage ==
    /\ cpc = "stages"
    /\ stage < NumStages
    /\ sprites' = Append(sprites,
                    PaintImage(pattern,
                               PaintCount(stage_coverage[stage + 1], pattern),
                               CrackAlpha(stage)))
    /\ stage' = stage + 1
    /\ UNCHANGED <<cpc, caller, mode, rng, width, height, origins, ordered_pixels,
                   visited, oi, x, y, step, all_pixels, si, fi, pattern>>
    /\ UNCHANGED notCrack

SpritesDone ==
    /\ cpc = "stages"
    /\ stage = NumStages
    /\ cpc' = "done"
    /\ UNCHANGED <<caller, mode, rng, width, height, origins, ordered_pixels,
                   visited, oi, x, y, step, all_pixels, si, fi, pattern, stage, sprites>>
    /\ UNCHANGED notCrack

\* state on entry of generate_full_crack_pattern (lines 14-20)
CrackEntry(c, m, r, w, h) ==
    /\ cpc = "origins"
    /\ caller = c
    /\ mode = m
    /\ rng = r
    /\ width = w
    /\ height = h
    /\ origins = <<>>
    /\ ordered_pixels = <<>>
    /\ visited = {}
    /\ oi = 0
    /\ x = 0
    /\ y = 0
    /\ step = 0
    /\ all_pixels = <<>>
    /\ si = 0
    /\ fi = 0
    /\ pattern = <<>>
    /\ stage = 0
    /\ sprites = <<>>

\* the sizes explored with every outcome of the random calls
SmallSizes == { wh \in (1..MaxPixels) \X (1..MaxPixels) : wh[1] * wh[2] <= MaxPixels }

CrackStart ==
    \/ \E s \in 1..NumSeeds : CrackEntry("sprites", "seeded", s, SpriteWidth, SpriteHeight)
    \/ \E wh \in SmallSizes : CrackEntry("direct", "any", 0, wh[1], wh[2])

CrackStep ==
    \/ ChooseOrigin
    \/ BeginWalk
    \/ WalkStep
    \/ ShuffleStep
    \/ ShuffleDone
    \/ FillStep
    \/ ReturnPattern
    \/ SaveStage
    \/ SpritesDone


(***************************************************************************)
(* generate_textures.py                                                    *)
(***************************************************************************)
ATLAS_SIZE == 256
TILE_SIZE == 16
TILES_PER_ROW == 16

\* a key that a TEXTURES entry does not have
Absent == <<>>

\* {"index": i, "suffix": s, "color": c}
Solid(i, s, c) == [index |-> i, suffix |-> s, color |-> c, color1 |-> Absent, color2 |-> Absent]
\* {"index": i, "suffix": s, "color1": c1, "color2": c2}
Dual(i, s, c1, c2) == [index |-> i, suffix |-> s, color |-> Absent, color1 |-> c1, color2 |-> c2]

TEXTURES == <<
    Solid(0, "air", <<200, 200, 200>>),
    Solid(1, "grass_top", <<76, 153, 0>>),
    Solid(2, "dirt", <<139, 90, 43>>),
    Solid(3, "stone", <<136, 136, 136>>),
    Solid(4, "wood_side", <<160, 110, 50>>),
    Solid(5, "leaves", <<34, 120, 34>>),
    Solid(6, "sand", <<219, 211, 160>>),
    Solid(7, "water", <<30, 100, 200>>),
    Solid(8, "glass", <<200, 230, 255>>),
    Solid(9, "cobblestone", <<120, 120, 120>>),
    Solid(10, "planks", <<180, 140, 80>>),
    Solid(11, "brick", <<170, 80, 60>>),
    Solid(12, "gravel", <<140, 130, 125>>),
    Solid(13, "iron", <<200, 200, 200>>),
    Solid(14, "gold", <<255, 215, 0>>),
    Solid(15, "diamond", <<80, 220, 220>>),
    Solid(16, "coal", <<50, 50, 50>>),
    Solid(17, "obsidian", <<20, 15, 30>>),
    Solid(18, "snow", <<240, 240, 255>>),
    Solid(19, "ice", <<170, 210, 240>>),
    Solid(20, "clay", <<160, 165, 175>>),
    Solid(21, "sandstone_top", <<220, 205, 155>>),
    Solid(22, "wool", <<235, 235, 235>>),
    Solid(23, "bedrock", <<85, 85, 85>>),
    Solid(24, "torch", <<255, 200, 50>>),
    Solid(25, "flower", <<255, 80, 80>>),
    Dual(26, "grass_side", <<76, 153, 0>>, <<139, 90, 43>>),
    Solid(27, "wood_top", <<140, 100, 45>>),
    Solid(28, "sandstone_side", <<195, 180, 130>>),
    Solid(29, "sandstone_bottom", <<200, 190, 150>>),
    Dual(30, "snow_side", <<240, 240, 255>>, <<139, 90, 43>>)
>>

Transparent == <<0, 0, 0, 0>>

TilePixels == (0..(TILE_SIZE - 1)) \X (0..(TILE_SIZE - 1))

\* Image.new("RGBA", (TILE_SIZE, TILE_SIZE), (0, 0, 0, 0))
NewTile == [p \in TilePixels |-> Transparent]

\* the value create_tile puts at pixel (px, py), or Absent when it puts none
TileColour(color, color1, color2, px, py) ==
    IF color # Absent THEN color \o <<255>>
    ELSE IF color1 # Absent /\ color2 # Absent
         THEN (IF py < TILE_SIZE \div 2 THEN color1 ELSE color2) \o <<255>>
         ELSE Absent

\* the arguments generate_textures passes to create_tile (lines 92-97)
ArgColor(t) == IF t.color1 # Absent THEN Absent ELSE t.color
ArgColor1(t) == IF t.color1 # Absent THEN t.color1 ELSE Absent
ArgColor2(t) == IF t.color1 # Absent THEN t.color2 ELSE Absent

\* AtlasX without "% TILES_PER_ROW"
AtlasXNoWrap(index) == index * TILE_SIZE

\* atlas_x = (index % TILES_PER_ROW) * TILE_SIZE
AtlasX(index) == (index % TILES_PER_ROW) * TILE_SIZE

\* atlas_y = (ATLAS_SIZE - TILE_SIZE) - ((index // TILES_PER_ROW) * TILE_SIZE)
AtlasY(index) == (ATLAS_SIZE - TILE_SIZE) - ((index \div TILES_PER_ROW) * TILE_SIZE)

\* block_atlas.paste(tile, (ax, ay)): the part of the tile inside the image is copied
Paste(atlas, t, ax, ay) ==
    LET inside == { p \in TilePixels : /\ 0 <= ax + p[1] /\ ax + p[1] < ATLAS_SIZE
                                       /\ 0 <= ay + p[2] /\ ay + p[2] < ATLAS_SIZE }
        target == { <<ax + p[1], ay + p[2]>> : p \in inside }
    IN  [q \in (DOMAIN atlas) \cup target |->
            IF q \in target THEN t[<<q[1] - ax, q[2] - ay>>] ELSE atlas[q]]

\* for texture in TEXTURES: entering one iteration, create_tile starts
TexBegin ==
    /\ tpc = "loop"
    /\ ti < Len(TEXTURES)
    /\ tile' = NewTile
    /\ tx' = 0
    /\ tpc' = "tile"
    /\ UNCHANGED <<ti, individual, block_atlas, pasted>>
    /\ UNCHANGED notTex

\* create_tile: one iteration of "for x in range(TILE_SIZE)", the putpixel of
\* every y of the column
PutColumn ==
    /\ tpc = "tile"
    /\ tx < TILE_SIZE
    /\ LET t == TEXTURES[ti + 1]
       IN  tile' = [p \in TilePixels |->
                      IF p[1] = tx /\ TileColour(ArgColor(t), ArgColor1(t), ArgColor2(t),
                                                 p[1], p[2]) # Absent
                      THEN TileColour(ArgColor(t), ArgColor1(t), ArgColor2(t), p[1], p[2])
                      ELSE tile[p]]
    /\ tx' = tx + 1
    /\ UNCHANGED <<tpc, ti, individual, block_atlas, pasted>>
    /\ UNCHANGED notTex

\* tile.save(...) and block_atlas.paste(tile, (atlas_x, atlas_y)) (lines 99-110)
SaveAndPaste ==
    /\ tpc = "tile"
    /\ tx = TILE_SIZE
    /\ LET t == TEXTURES[ti + 1]
       IN  /\ individual' = individual \cup {<<t.index, t.suffix>>}
           /\ block_atlas' = Paste(block_atlas, tile, AtlasX(t.index), AtlasY(t.index))
           /\ pasted' = Append(pasted, <<t.index, AtlasX(t.index), AtlasY(t.index)>>)
    /\ ti' = ti + 1
    /\ tpc' = "loop"
    /\ UNCHANGED <<tile, tx>>
    /\ UNCHANGED notTex

\* block_atlas.save(block_atlas_path)
SaveAtlas ==
    /\ tpc = "loop"
    /\ ti = Len(TEXTURES)
    /\ tpc' = "done"
    /\ UNCHANGED <<ti, tile, tx, individual, block_atlas, pasted>>
    /\ UNCHANGED notTex

TexInit ==
    /\ tpc = "loop"
    /\ ti = 0
    /\ tile = <<>>
    /\ tx = 0
    /\ individual = {}
    /\ block_atlas = <<>>
    /\ pasted = <<>>

TexStep ==
    \/ TexBegin
    \/ PutColumn
    \/ SaveAndPaste
    \/ SaveAtlas

(***************************************************************************)
(* Text files.  A text is a sequence of tokens (pieces of text that the    *)
(* scripts never split); a line is the tokens up to and including "\n".    *)
(***************************************************************************)
Whitespace == {" ", "\n"}

\* str.strip()
RECURSIVE LStrip(_)
LStrip(s) == IF s # <<>> /\ Head(s) \in Whitespace THEN LStrip(Tail(s)) ELSE s

RECURSIVE RStrip(_)
RStrip(s) ==
    IF s # <<>> /\ s[Len(s)] \in Whitespace THEN RStrip(SubSeq(s, 1, Len(s) - 1)) ELSE s

Strip(s) == RStrip(LStrip(s))

\* the positions at which the lines of a text end: each "\n", and the last token
LineEnds(text) ==
    { i \in 1..Len(text) : text[i] = "\n" \/ i = Len(text) }

\* the k-th smallest element of a set of numbers
KthOf(S, k) == CHOOSE e \in S : Cardinality({ f \in S : f <= e }) = k

\* f.readlines() / "for line in f": the lines of a text, each with its "\n"
ReadLines(text) ==
    LET ends == LineEnds(text)
    IN  [k \in 1..Cardinality(ends) |->
            SubSeq(text, IF k = 1 THEN 1 ELSE KthOf(ends, k - 1) + 1, KthOf(ends, k))]

\* f.writelines(lines)
RECURSIVE WriteLines(_)
WriteLines(ls) == IF ls = <<>> THEN <<>> ELSE Head(ls) \o WriteLines(Tail(ls))

(***************************************************************************)
(* update_block_registry.py                                                *)
(***************************************************************************)
existing_guids == <<
    "bd31c31dfd0b4314691f16ea7b3fe355",
    "84f7b997588994941b26694bd273b8ab",
    "4de6099ccf668d241a3a91a599636089",
    "93e418a9880d5ad408f0f91355a37cd1",
    "cba1318f6db55f1408a4c1f0f8469889",
    "1fd60414ba05e0249889168eb881c194",
    "377ff86f72d4c7b44928c0b9dfc995ad"
>>

new_block_guids == <<
    "eff441eceee9439f8613d1e04c109cae",
    "2aa2682e1cd347f8b3f9affc1a32dc25",
    "a701f2bca8524314b208b0eaffe9e1c4",
    "f39ec1c49cfb4542a0a885f5b5c0057b",
    "e67e1b5a0f6349c6945bdd58af67aad3",
    "eecf3916c73040eb8546768495f78fe5",
    "3ee3f8b22ec74ba1b5dea97c41ed81be",
    "98b7267a79f8422aa09ca13b42873f5e",
    "bfc180317d244c1ba08ab96c58509873",
    "78fd64fb53aa40049238a35329e1d7f5",
    "c2fd5fabea1f4a9496dc8c73febdee2d",
    "4a94192e85ca4d43833e986cf12ee765",
    "d6b2dd0856e34daa960ac73fd0622e1d",
    "e7f7515632e842268d3cfee73e0e07d4",
    "da7244822b9c494586136099424a76b0",
    "3fbd913a87cc46278e77dc942e14822a",
    "ed5724392cfb459c9935bf0478fa7c82",
    "76481855fa67425d92fcdaac1cf01e37"
>>

all_guids == existing_guids \o new_block_guids

\* f"  - {{fileID: 11400000, guid: {guid}, type: 2}}\n"
EntryLine(guid) == <<" ", " ", "- {fileID: 11400000, guid: ", guid, ", type: 2}", "\n">>

\* ReplaceSlice with the slice lines[i + 1 : i + 7]
ReplaceSixLines(ls, i, new) ==
    SubSeq(ls, 1, Min(i + 1, Len(ls))) \o new \o SubSeq(ls, Min(i + 7, Len(ls)) + 1, Len(ls))

\* lines[i + 1 : i + 8] = new   (i is 0-based; the slice bounds are clipped to the list)
ReplaceSlice(ls, i, new) ==
    SubSeq(ls, 1, Min(i + 1, Len(ls))) \o new \o SubSeq(ls, Min(i + 8, Len(ls)) + 1, Len(ls))

\* the list comprehension of lines 47-49
NewEntryLines == [k \in 1..Len(all_guids) |-> EntryLine(all_guids[k])]

\* with open(...) as f: lines = f.readlines()
RegRead ==
    /\ rpc = "start"
    /\ lines' = ReadLines(scene)
    /\ ri' = 0
    /\ rpc' = "scan"
    /\ UNCHANGED <<scene, scene0, runs>>
    /\ UNCHANGED notReg

\* for i, line in enumerate(lines): one iteration
RegScan ==
    /\ rpc = "scan"
    /\ ri < Len(lines)
    /\ IF Strip(lines[ri + 1]) = <<"definitions:">>
       THEN /\ lines' = ReplaceSlice(lines, ri, NewEntryLines)
            /\ rpc' = "write"
            /\ UNCHANGED ri
       ELSE /\ ri' = ri + 1
            /\ UNCHANGED <<lines, rpc>>
    /\ UNCHANGED <<scene, scene0, runs>>
    /\ UNCHANGED notReg

\* the loop ends without a break
RegScanEnd ==
    /\ rpc = "scan"
    /\ ri = Len(lines)
    /\ rpc' = "write"
    /\ UNCHANGED <<scene, scene0, lines, ri, runs>>
    /\ UNCHANGED notReg

\* with open(..., "w") as f: f.writelines(lines)
RegWrite ==
    /\ rpc = "write"
    /\ scene' = WriteLines(lines)
    /\ runs' = runs + 1
    /\ rpc' = "done"
    /\ UNCHANGED <<scene0, lines, ri>>
    /\ UNCHANGED notReg

\* the script is run again on the file it left
RegRerun ==
    /\ rpc = "done"
    /\ runs < MaxRuns
    /\ rpc' = "start"
    /\ lines' = <<>>
    /\ ri' = 0
    /\ UNCHANGED <<scene, scene0, runs>>
    /\ UNCHANGED notReg

\* ---- the scene files the script is run on
ForeignGuids == <<
    "000000000000000000000000000000a0",
    "000000000000000000000000000000a1",
    "000000000000000000000000000000a2",
    "000000000000000000000000000000a3",
    "000000000000000000000000000000a4",
    "000000000000000000000000000000a5",
    "000000000000000000000000000000a6",
    "000000000000000000000000000000a7",
    "000000000000000000000000000000a8"
>>

PreLines == << <<"%YAML 1.1", "\n">>,
               <<"MonoBehaviour:", "\n">>,
               <<" ", " ", "definitions:", " ", "[]", "\n">> >>

PostLines == << <<" ", " ", "m_Enabled: 1", "\n">>,
                <<"--- !u!1 &705507993", "\n">> >>

\* the GUID of the k-th entry of the file: the one of the table, or another one
FileGuid(k, fromTable) ==
    IF fromTable /\ k <= Len(all_guids) THEN all_guids[k] ELSE ForeignGuids[k]

\* a definitions list of k entries, the header indented by ind spaces
DefinitionsBlock(ind, k, fromTable) ==
    << [j \in 1..ind |-> " "] \o <<"definitions:", "\n">> >>
        \o [j \in 1..k |-> EntryLine(FileGuid(j, fromTable))]

\* the text without the "\n" of its last line
DropFinalNewline(text) ==
    IF text # <<>> /\ text[Len(text)] = "\n" THEN SubSeq(text, 1, Len(text) - 1) ELSE text

SceneFiles ==
    { IF nl THEN WriteLines(ls) ELSE DropFinalNewline(WriteLines(ls)) :
        nl \in BOOLEAN,
        ls \in { SubSeq(PreLines, 1, a) \o blk \o SubSeq(PostLines, 1, b) \o blk2 :
                   a \in 0..Len(PreLines), b \in 0..Len(PostLines),
                   blk \in {<<>>} \cup { DefinitionsBlock(ind, k, t) :
                              ind \in {0, 2}, k \in 0..(Len(existing_guids) + MaxExtraEntries),
                              t \in BOOLEAN },
                   blk2 \in {<<>>, DefinitionsBlock(2, 1, FALSE)} } }

RegInit ==
    /\ scene \in SceneFiles
    /\ scene0 = scene
    /\ lines = <<>>
    /\ ri = 0
    /\ rpc = "start"
    /\ runs = 0

RegIdle ==
    /\ scene = <<>>
    /\ scene0 = <<>>
    /\ lines = <<>>
    /\ ri = 0
    /\ rpc = "start"
    /\ runs = 0

RegStep ==
    \/ RegRead
    \/ RegScan
    \/ RegScanEnd
    \/ RegWrite
    \/ RegRerun

(***************************************************************************)
(* Tools/assign_textures.py                                                *)
(***************************************************************************)
\* TILE_FILES: the file name of tile t is TILE_FILES[t + 1]
TILE_FILES == <<
    "tile_0_air.png",
    "tile_1_grass_top.png",
    "tile_2_dirt.png",
    "tile_3_stone.png",
    "tile_4_wood_side.png",
    "tile_5_leaves.png",
    "tile_6_sand.png",
    "tile_7_water.png",
    "tile_8_glass.png",
    "tile_9_cobblestone.png",
    "tile_10_planks.png",
    "tile_11_brick.png",
    "tile_12_gravel.png",
    "tile_13_iron.png",
    "tile_14_gold.png",
    "tile_15_diamond.png",
    "tile_16_coal.png",
    "tile_17_obsidian.png",
    "tile_18_snow.png",
    "tile_19_ice.png",
    "tile_20_clay.png",
    "tile_21_sandstone_top.png",
    "tile_22_wool.png",
    "tile_23_bedrock.png",
    "tile_24_torch.png",
    "tile_25_flower.png",
    "tile_26_grass_side.png",
    "tile_27_wood_top.png",
    "tile_28_sandstone_side.png",
    "tile_29_sandstone_bottom.png",
    "tile_30_snow_side.png"
>>

Tiles == 0..(Len(TILE_FILES) - 1)

\* the rows of BLOCK_TILE_MAP: name after "Block_", top, side, bottom
BlockTable == <<
    <<"Air", 0, 0, 0>>,
    <<"Grass", 1, 26, 2>>,
    <<"Dirt", 2, 2, 2>>,
    <<"Stone", 3, 3, 3>>,
    <<"Wood", 27, 4, 27>>,
    <<"Leaves", 5, 5, 5>>,
    <<"Sand", 6, 6, 6>>,
    <<"Water", 7, 7, 7>>,
    <<"Glass", 8, 8, 8>>,
    <<"Cobblestone", 9, 9, 9>>,
    <<"Planks", 10, 10, 10>>,
    <<"Brick", 11, 11, 11>>,
    <<"Gravel", 12, 12, 12>>,
    <<"Iron", 13, 13, 13>>,
    <<"Gold", 14, 14, 14>>,
    <<"Diamond", 15, 15, 15>>,
    <<"Coal", 16, 16, 16>>,
    <<"Obsidian", 17, 17, 17>>,
    <<"Snow", 18, 30, 2>>,
    <<"Ice", 19, 19, 19>>,
    <<"Clay", 20, 20, 20>>,
    <<"Sandstone", 21, 28, 29>>,
    <<"Wool", 22, 22, 22>>,
    <<"Bedrock", 23, 23, 23>>,
    <<"Torch", 24, 24, 24>>,
    <<"Flower", 25, 25, 25>>
>>

Range(seq) == { seq[i] : i \in 1..Len(seq) }

\* a block name is the pair <<"Block_", name>>
BLOCK_TILE_MAP ==
    [b \in { <<"Block_", r[1]>> : r \in Range(BlockTable) } |->
        LET r == CHOOSE r \in Range(BlockTable) : r[1] = b[2]
        IN  <<r[2], r[3], r[4]>>]

\* ---- get_guid_from_meta
StartsWith(s, tok) == s # <<>> /\ Head(s) = tok

\* the index of the first tok of s at or after i, Len(s) + 1 when none
FindFrom(s, i, tok) ==
    IF \E j \in i..Len(s) : s[j] = tok
    THEN CHOOSE j \in i..Len(s) : s[j] = tok /\ \A k \in i..(j - 1) : s[k] # tok
    ELSE Len(s) + 1

\* s.split(tok)[1], for s holding tok
SplitSecond(s, tok) ==
    LET a == FindFrom(s, 1, tok)
    IN  SubSeq(s, a + 1, FindFrom(s, a + 1, tok) - 1)

\* the text of a token list, as one string
RECURSIVE Join(_)
Join(s) == IF s = <<>> THEN "" ELSE Head(s) \o Join(Tail(s))

\* line.strip().split("guid:")[1].strip()
GuidOfLine(line) == Join(Strip(SplitSecond(Strip(line), "guid:")))

\* the lines of the file whose stripped text starts with "guid:"
GuidLines(text) ==
    SelectSeq(ReadLines(text), LAMBDA l : StartsWith(Strip(l), "guid:"))

\* GetGuidFromMeta returning "" where get_guid_from_meta raises
GetGuidNeverRaises(fs, t) ==
    IF t \in DOMAIN fs /\ GuidLines(fs[t]) # <<>>
    THEN [raised |-> "", guid |-> GuidOfLine(Head(GuidLines(fs[t])))]
    ELSE [raised |-> "", guid |-> ""]

\* get_guid_from_meta(texture_path), fs the .meta files present: the exception
\* raised ("" when none) and the value returned
GetGuidFromMeta(fs, t) ==
    IF t \notin DOMAIN fs THEN [raised |-> "FileNotFoundError", guid |-> ""]
    ELSE IF GuidLines(fs[t]) = <<>> THEN [raised |-> "ValueError", guid |-> ""]
    ELSE [raised |-> "", guid |-> GuidOfLine(Head(GuidLines(fs[t])))]

\* build_guid_map: one iteration of "for tile_idx, filename in TILE_FILES.items()"
BuildStep ==
    /\ apc = "build"
    /\ gi < Len(TILE_FILES)
    /\ IF gi \in textures
       THEN LET r == GetGuidFromMeta(metas, gi)
            IN  IF r.raised # ""
                THEN /\ error' = r.raised
                     /\ apc' = "raised"
                     /\ UNCHANGED <<guid_map, gi, stdout>>
                ELSE /\ guid_map' = [t \in (DOMAIN guid_map) \cup {gi} |->
                                        IF t = gi THEN r.guid ELSE guid_map[t]]
                     /\ gi' = gi + 1
                     /\ UNCHANGED <<error, apc, stdout>>
       ELSE /\ stdout' = Append(stdout, <<"WARNING", TILE_FILES[gi + 1]>>)
            /\ gi' = gi + 1
            /\ UNCHANGED <<guid_map, error, apc>>
    /\ UNCHANGED <<textures, metas, assets, fidx, updated, skipped, aruns, written>>
    /\ UNCHANGED notAssign

\* return guid_map; main goes on to list BLOCKS_DIR
BuildDone ==
    /\ apc = "build"
    /\ gi = Len(TILE_FILES)
    /\ apc' = "list"
    /\ fidx' = 0
    /\ UNCHANGED <<textures, metas, guid_map, gi, error, stdout, assets,
                   updated, skipped, aruns, written>>
    /\ UNCHANGED notAssign

\* ---- update_asset
\* make_tex_ref(guid)
MakeTexRef(guid) == <<"{fileID: ", "2800000, guid: ", guid, ", type: 3", "}">>

\* MatchEnd for the pattern  (key)\{fileID: 0\}
MatchEndNullOnly(content, i, key) ==
    IF /\ content[i] = key
       /\ i + 3 <= Len(content)
       /\ content[i + 1] = "{fileID: " /\ content[i + 2] = "0" /\ content[i + 3] = "}"
    THEN i + 3
    ELSE 0

\* MatchEnd for the pattern  (key)\{fileID: 
MatchEndOpenOnly(content, i, key) ==
    IF content[i] = key /\ i + 1 <= Len(content) /\ content[i + 1] = "{fileID: "
    THEN i + 1
    ELSE 0

\* MatchEnd for the pattern  (key)\{fileID: .*\}  with re.DOTALL
MatchEndGreedy(content, i, key) ==
    IF /\ content[i] = key
       /\ i + 1 <= Len(content)
       /\ content[i + 1] = "{fileID: "
       /\ \E j \in (i + 2)..Len(content) : content[j] = "}"
    THEN CHOOSE j \in (i + 2)..Len(content) :
            content[j] = "}" /\ \A k \in (j + 1)..Len(content) : content[k] # "}"
    ELSE 0

\* a match of  (key)\{fileID: [^}]*\}  starting at token i: the index of its
\* last token, 0 when there is no match at i
MatchEnd(content, i, key) ==
    IF /\ content[i] = key
       /\ i + 1 <= Len(content)
       /\ content[i + 1] = "{fileID: "
       /\ FindFrom(content, i + 2, "}") <= Len(content)
    THEN FindFrom(content, i + 2, "}")
    ELSE 0

\* re.sub(r"(key)" + tex_pattern, r"\1" + ref, content), scanning from token i
RECURSIVE ReSubFrom(_, _, _, _)
ReSubFrom(content, i, key, ref) ==
    IF i > Len(content) THEN <<>>
    ELSE IF MatchEnd(content, i, key) > 0
         THEN <<key>> \o ref \o ReSubFrom(content, MatchEnd(content, i, key) + 1, key, ref)
         ELSE <<content[i]>> \o ReSubFrom(content, i + 1, key, ref)

ReSub(content, key, ref) == ReSubFrom(content, 1, key, ref)

\* guid_map.get(idx): "" stands for None
GuidMapGet(gm, idx) == IF idx \in DOMAIN gm THEN gm[idx] ELSE ""

\* HasAllGuids with any() in place of all()
HasAnyGuid(top_guid, side_guid, bottom_guid) ==
    top_guid # "" \/ side_guid # "" \/ bottom_guid # ""

\* all([top_guid, side_guid, bottom_guid]): None and "" are false
HasAllGuids(top_guid, side_guid, bottom_guid) ==
    top_guid # "" /\ side_guid # "" /\ bottom_guid # ""

\* the text update_asset writes (lines 150-168)
PatchContent(content, top_guid, side_guid, bottom_guid) ==
    ReSub(ReSub(ReSub(content, "topTexture: ", MakeTexRef(top_guid)),
                "sideTexture: ", MakeTexRef(side_guid)),
          "bottomTexture: ", MakeTexRef(bottom_guid))

\* update_asset(asset_path, block_name, guid_map): the value returned, what it
\* prints, the content of the file afterwards and whether the file was opened
\* for writing
UpdateAsset(content, block_name, gm) ==
    IF block_name \notin DOMAIN BLOCK_TILE_MAP
    THEN [ret |-> FALSE, out |-> <<"SKIP: not in tile map", Join(block_name)>>,
          content |-> content, wrote |-> FALSE]
    ELSE IF block_name = <<"Block_", "Air">>
    THEN [ret |-> FALSE, out |-> <<"SKIP: Air", Join(block_name)>>, content |-> content,
          wrote |-> FALSE]
    ELSE LET idx == BLOCK_TILE_MAP[block_name]
             top_guid == GuidMapGet(gm, idx[1])
             side_guid == GuidMapGet(gm, idx[2])
             bottom_guid == GuidMapGet(gm, idx[3])
         IN  IF ~HasAllGuids(top_guid, side_guid, bottom_guid)
             THEN [ret |-> FALSE, out |-> <<"ERROR: Missing GUID", Join(block_name)>>,
                   content |-> content, wrote |-> FALSE]
             ELSE [ret |-> TRUE, out |-> <<"OK", Join(block_name)>>,
                   content |-> PatchContent(content, top_guid, side_guid, bottom_guid),
                   wrote |-> TRUE]

\* ---- main
\* the names a directory can hold, in the order sorted() gives them
SortedNames == <<
    <<"Block_", "Air", ".asset">>,
    <<"Block_", "Air", ".asset", ".meta">>,
    <<"Block_", "Bedrock", ".asset">>,
    <<"Block_", "Bedrock", ".asset", ".meta">>,
    <<"Block_", "Brick", ".asset">>,
    <<"Block_", "Brick", ".asset", ".meta">>,
    <<"Block_", "Clay", ".asset">>,
    <<"Block_", "Clay", ".asset", ".meta">>,
    <<"Block_", "Coal", ".asset">>,
    <<"Block_", "Coal", ".asset", ".meta">>,
    <<"Block_", "Cobblestone", ".asset">>,
    <<"Block_", "Cobblestone", ".asset", ".meta">>,
    <<"Block_", "Diamond", ".asset">>,
    <<"Block_", "Diamond", ".asset", ".meta">>,
    <<"Block_", "Dirt", ".asset">>,
    <<"Block_", "Flower", ".asset">>,
    <<"Block_", "Flower", ".asset", ".meta">>,
    <<"Block_", "Glass", ".asset">>,
    <<"Block_", "Glass", ".asset", ".meta">>,
    <<"Block_", "Gold", ".asset">>,
    <<"Block_", "Gold", ".asset", ".meta">>,
    <<"Block_", "Grass", ".asset">>,
    <<"Block_", "Gravel", ".asset">>,
    <<"Block_", "Gravel", ".asset", ".meta">>,
    <<"Block_", "Ice", ".asset">>,
    <<"Block_", "Ice", ".asset", ".meta">>,
    <<"Block_", "Iron", ".asset">>,
    <<"Block_", "Iron", ".asset", ".meta">>,
    <<"Block_", "Lava", ".asset">>,
    <<"Block_", "Leaves", ".asset">>,
    <<"Block_", "Obsidian", ".asset">>,
    <<"Block_", "Obsidian", ".asset", ".meta">>,
    <<"Block_", "Planks", ".asset">>,
    <<"Block_", "Planks", ".asset", ".meta">>,
    <<"Block_", "Sand", ".asset">>,
    <<"Block_", "Sandstone", ".asset">>,
    <<"Block_", "Sandstone", ".asset", ".meta">>,
    <<"Block_", "Snow", ".asset">>,
    <<"Block_", "Snow", ".asset", ".meta">>,
    <<"Block_", "Stone", ".asset">>,
    <<"Block_", "Torch", ".asset">>,
    <<"Block_", "Water", ".asset">>,
    <<"Block_", "Water", ".asset", ".meta">>,
    <<"Block_", "Wood", ".asset">>,
    <<"Block_", "Wool", ".asset">>,
    <<"Block_", "Wool", ".asset", ".meta">>,
    <<"Notes", ".txt">>
>>

\* sorted(os.listdir(BLOCKS_DIR))
Listing(dir) == SelectSeq(SortedNames, LAMBDA n : n \in dir)

\* filename.startswith("Block_") and filename.endswith(".asset")
IsBlockAsset(filename) == Head(filename) = "Block_" /\ filename[Len(filename)] = ".asset"

\* filename.replace(".asset", "")
BlockNameOf(filename) == SelectSeq(filename, LAMBDA tok : tok # ".asset")

\* for filename in sorted(os.listdir(BLOCKS_DIR)): one iteration
MainStep ==
    /\ apc = "list"
    /\ fidx < Len(Listing(DOMAIN assets))
    /\ LET filename == Listing(DOMAIN assets)[fidx + 1]
           r == UpdateAsset(assets[filename], BlockNameOf(filename), guid_map)
       IN  IF ~IsBlockAsset(filename)
           THEN UNCHANGED <<assets, stdout, updated, skipped, written>>
           ELSE /\ assets' = [assets EXCEPT ![filename] = r.content]
                /\ written' = IF r.wrote THEN written \cup {filename} ELSE written
                /\ stdout' = Append(stdout, r.out)
                /\ updated' = IF r.ret THEN updated + 1 ELSE updated
                /\ skipped' = IF r.ret THEN skipped ELSE skipped + 1
    /\ fidx' = fidx + 1
    /\ UNCHANGED <<apc, textures, metas, guid_map, gi, error, aruns>>
    /\ UNCHANGED notAssign

\* print(f"=== Done: {updated} updated, {skipped} skipped ===")
MainDone ==
    /\ apc = "list"
    /\ fidx = Len(Listing(DOMAIN assets))
    /\ apc' = "done"
    /\ aruns' = aruns + 1
    /\ UNCHANGED <<textures, metas, guid_map, gi, error, stdout, assets,
                   fidx, updated, skipped, written>>
    /\ UNCHANGED notAssign

\* the script is run again on the files it left
MainRerun ==
    /\ apc = "done"
    /\ aruns < MaxRuns
    /\ apc' = "build"
    /\ guid_map' = <<>>
    /\ gi' = 0
    /\ fidx' = 0
    /\ updated' = 0
    /\ skipped' = 0
    /\ stdout' = <<>>
    /\ written' = {}
    /\ UNCHANGED <<textures, metas, error, assets, aruns>>
    /\ UNCHANGED notAssign

\* ---- the files the script is run on
\* the GUID Unity gave the texture of tile t
TileGuids == <<
    "7e000000c0ffeec0ffeec0ffeec0ffee",
    "7e000001c0ffeec0ffeec0ffeec0ffee",
    "7e000002c0ffeec0ffeec0ffeec0ffee",
    "7e000003c0ffeec0ffeec0ffeec0ffee",
    "7e000004c0ffeec0ffeec0ffeec0ffee",
    "7e000005c0ffeec0ffeec0ffeec0ffee",
    "7e000006c0ffeec0ffeec0ffeec0ffee",
    "7e000007c0ffeec0ffeec0ffeec0ffee",
    "7e000008c0ffeec0ffeec0ffeec0ffee",
    "7e000009c0ffeec0ffeec0ffeec0ffee",
    "7e00000ac0ffeec0ffeec0ffeec0ffee",
    "7e00000bc0ffeec0ffeec0ffeec0ffee",
    "7e00000cc0ffeec0ffeec0ffeec0ffee",
    "7e00000dc0ffeec0ffeec0ffeec0ffee",
    "7e00000ec0ffeec0ffeec0ffeec0ffee",
    "7e00000fc0ffeec0ffeec0ffeec0ffee",
    "7e000010c0ffeec0ffeec0ffeec0ffee",
    "7e000011c0ffeec0ffeec0ffeec0ffee",
    "7e000012c0ffeec0ffeec0ffeec0ffee",
    "7e000013c0ffeec0ffeec0ffeec0ffee",
    "7e000014c0ffeec0ffeec0ffeec0ffee",
    "7e000015c0ffeec0ffeec0ffeec0ffee",
    "7e000016c0ffeec0ffeec0ffeec0ffee",
    "7e000017c0ffeec0ffeec0ffeec0ffee",
    "7e000018c0ffeec0ffeec0ffeec0ffee",
    "7e000019c0ffeec0ffeec0ffeec0ffee",
    "7e00001ac0ffeec0ffeec0ffeec0ffee",
    "7e00001bc0ffeec0ffeec0ffeec0ffee",
    "7e00001cc0ffeec0ffeec0ffeec0ffee",
    "7e00001dc0ffeec0ffeec0ffeec0ffee",
    "7e00001ec0ffeec0ffeec0ffeec0ffee"
>>

MetaWithGuid(g) ==
    <<"fileFormatVersion: 2", "\n", "guid:", " ", g, "\n", "TextureImporter:", "\n">>
MetaWithEmptyGuid == <<"fileFormatVersion: 2", "\n", "guid:", "\n", "TextureImporter:", "\n">>
MetaWithoutGuid == <<"fileFormatVersion: 2", "\n", "TextureImporter:", "\n">>

\* the sets of at most k tiles
RECURSIVE TileSetsUpTo(_)
TileSetsUpTo(k) ==
    IF k = 0 THEN {{}}
    ELSE { s \cup e : s \in TileSetsUpTo(k - 1), e \in {{}} \cup { {t} : t \in Tiles } }

\* the .meta files: every texture has a good one, but the texture "bad" (-1: none)
\* whose .meta is missing ("nometa"), without guid line ("noguid") or with an
\* empty guid ("empty")
MetaFiles(bad, kind) ==
    [t \in { u \in Tiles : ~(u = bad /\ kind = "nometa") } |->
        IF t # bad THEN MetaWithGuid(TileGuids[t + 1])
        ELSE IF kind = "noguid" THEN MetaWithoutGuid
        ELSE MetaWithEmptyGuid]

NullRef == <<"{fileID: ", "0", "}">>
StaleRef == <<"{fileID: ", "2800000, guid: ", "0123456789abcdef0123456789abcdef", ", type: 3", "}">>
UnclosedRef == <<"{fileID: ", "0">>
OtherRef == <<"{instanceID: 0", "}">>

\* the digits of a tile index
NumStr == [n \in 0..30 |-> <<"0", "1", "2", "3", "4", "5", "6", "7", "8", "9", "10",
                             "11", "12", "13", "14", "15", "16", "17", "18", "19", "20",
                             "21", "22", "23", "24", "25", "26", "27", "28", "29",
                             "30">>[n + 1]]

\* the text of a block asset (the layout of base_template), its three texture
\* fields holding the given values; the text the patterns of update_asset read is
\* cut into tokens, the text between is kept whole
AssetText(name, top, side, bottom, topRef, sideRef, bottomRef) ==
    <<"%YAML 1.1\n%TAG !u! tag:unity3d.com,2011:\n--- !u!114 &11400000\nMonoBehaviour:\n  m_ObjectHideFlags: 0\n  m_CorrespondingSourceObject: ",
      "{fileID: ", "0", "}",
      "\n  m_PrefabInstance: {fileID: 0}\n  m_PrefabAsset: {fileID: 0}\n  m_GameObject: {fileID: 0}\n  m_Enabled: 1\n  m_EditorHideFlags: 0\n  m_Script: ",
      "{fileID: ", "11500000, guid: 0fed08878a38d04459f1f2881b12ea1e, type: 3", "}",
      "\n  m_Name: Block_" \o name \o "\n  m_EditorClassIdentifier: \n  blockId, blockName, isSolid, isTransparent\n  topTileIndex: "
         \o NumStr[top] \o "\n  bottomTileIndex: " \o NumStr[bottom]
         \o "\n  sideTileIndex: " \o NumStr[side] \o "\n  ",
      "topTexture: ">> \o topRef \o <<"\n  ",
      "sideTexture: ">> \o sideRef \o <<"\n  ",
      "bottomTexture: ">> \o bottomRef \o
    <<"\n  lightEmission, hardness, preferredToolType\n">>

\* the blocks listed in generate_block_assets.py; their files in BLOCKS_DIR have
\* null texture references
GeneratedBlocks == {"Water", "Glass", "Cobblestone", "Planks", "Brick", "Gravel", "Iron", "Gold", "Diamond", "Coal", "Obsidian", "Snow", "Ice", "Clay", "Sandstone", "Wool", "Bedrock", "Flower"}

\* the three texture fields of the block files found in BLOCKS_DIR: null as
\* generated, or what an older asset may hold
InitialRefs(name) ==
    IF name \in GeneratedBlocks THEN <<NullRef, NullRef, NullRef>>
    ELSE IF name = "Grass" THEN <<StaleRef, StaleRef, StaleRef>>
    ELSE IF name = "Dirt" THEN <<StaleRef, NullRef, StaleRef>>
    ELSE IF name = "Stone" THEN <<UnclosedRef, NullRef, NullRef>>
    ELSE IF name = "Wood" THEN <<NullRef, OtherRef, NullRef>>
    ELSE IF name = "Leaves" THEN <<NullRef, StaleRef, UnclosedRef>>
    ELSE <<NullRef, NullRef, NullRef>>

\* the content of the file of BLOCKS_DIR named filename
InitialContent(filename) ==
    IF IsBlockAsset(filename) /\ BlockNameOf(filename) \in DOMAIN BLOCK_TILE_MAP
    THEN LET name == filename[2]
             idx == BLOCK_TILE_MAP[BlockNameOf(filename)]
             refs == InitialRefs(name)
         IN  AssetText(name, idx[1], idx[2], idx[3], refs[1], refs[2], refs[3])
    ELSE IF IsBlockAsset(filename)
    THEN AssetText(filename[2], 0, 0, 0, NullRef, NullRef, NullRef)
    ELSE <<"fileFormatVersion: 2", "\n">>

\* the files of BLOCKS_DIR before the first run
InitialAssets ==
    [f \in { n \in Range(SortedNames) :
                Len(n) < 4 \/ n = <<"Block_", "Air", ".asset", ".meta">> } |->
        InitialContent(f)]

AssignEntry(absent, bad, kind) ==
    /\ apc = "build"
    /\ textures = Tiles \ absent
    /\ metas = MetaFiles(bad, kind)
    /\ guid_map = <<>>
    /\ gi = 0
    /\ error = ""
    /\ stdout = <<>>
    /\ assets = InitialAssets
    /\ fidx = 0
    /\ updated = 0
    /\ skipped = 0
    /\ aruns = 0
    /\ written = {}

\* the runs explored: up to MaxAbsent absent textures and good .meta files, or
\* one bad .meta file together with at most one absent texture
AssignStart ==
    \/ \E absent \in TileSetsUpTo(MaxAbsent) : AssignEntry(absent, -1, "none")
    \/ \E absent \in TileSetsUpTo(1) :
          \E bad \in Tiles \ absent : \E kind \in {"nometa", "noguid", "empty"} :
              AssignEntry(absent, bad, kind)

AssignIdle ==
    /\ apc = "idle"
    /\ textures = {}
    /\ metas = <<>>
    /\ guid_map = <<>>
    /\ gi = 0
    /\ error = ""
    /\ stdout = <<>>
    /\ assets = <<>>
    /\ fidx = 0
    /\ updated = 0
    /\ skipped = 0
    /\ aruns = 0
    /\ written = {}

AssignStep ==
    \/ BuildStep
    \/ BuildDone
    \/ MainStep
    \/ MainDone
    \/ MainRerun

(***************************************************************************)
(* generate_block_assets.py                                                *)
(***************************************************************************)
\* the entries of blocks: name, id, solid, transparent, top, side, bottom,
\* emission, hardness, tool, the values but the tile indices as str() gives them
BlockRows == <<
    <<"Water", "7", "0", "1", 7, 7, 7, "0", "-1", "0">>,
    <<"Glass", "8", "1", "1", 8, 8, 8, "0", "0.3", "0">>,
    <<"Cobblestone", "9", "1", "0", 9, 9, 9, "0", "2", "1">>,
    <<"Planks", "10", "1", "0", 10, 10, 10, "0", "2", "2">>,
    <<"Brick", "11", "1", "0", 11, 11, 11, "0", "2", "1">>,
    <<"Gravel", "12", "1", "0", 12, 12, 12, "0", "0.6", "3">>,
    <<"Iron", "13", "1", "0", 13, 13, 13, "0", "3", "1">>,
    <<"Gold", "14", "1", "0", 14, 14, 14, "0", "3", "1">>,
    <<"Diamond", "15", "1", "0", 15, 15, 15, "0", "3", "1">>,
    <<"Coal", "16", "1", "0", 16, 16, 16, "0", "3", "1">>,
    <<"Obsidian", "17", "1", "0", 17, 17, 17, "0", "50", "1">>,
    <<"Snow", "18", "1", "0", 18, 30, 2, "0", "0.2", "3">>,
    <<"Ice", "19", "1", "1", 19, 19, 19, "0", "0.5", "1">>,
    <<"Clay", "20", "1", "0", 20, 20, 20, "0", "0.6", "3">>,
    <<"Sandstone", "21", "1", "0", 21, 28, 29, "0", "0.8", "1">>,
    <<"Wool", "22", "1", "0", 22, 22, 22, "0", "0.8", "4">>,
    <<"Bedrock", "23", "1", "0", 23, 23, 23, "0", "-1", "0">>,
    <<"Flower", "25", "0", "1", 25, 25, 25, "0", "0", "0">>
>>

\* one dict of blocks: key -> the text format() gives for its value
BlockDict(r) ==
    [name |-> r[1], id |-> r[2], solid |-> r[3], transparent |-> r[4],
     top |-> NumStr[r[5]], side |-> NumStr[r[6]], bottom |-> NumStr[r[7]],
     emission |-> r[8], hardness |-> r[9], tool |-> r[10]]

blocks == [i \in 1..Len(BlockRows) |-> BlockDict(BlockRows[i])]

guids == <<
    "eff441eceee9439f8613d1e04c109cae",
    "2aa2682e1cd347f8b3f9affc1a32dc25",
    "a701f2bca8524314b208b0eaffe9e1c4",
    "f39ec1c49cfb4542a0a885f5b5c0057b",
    "e67e1b5a0f6349c6945bdd58af67aad3",
    "eecf3916c73040eb8546768495f78fe5",
    "3ee3f8b22ec74ba1b5dea97c41ed81be",
    "98b7267a79f8422aa09ca13b42873f5e",
    "bfc180317d244c1ba08ab96c58509873",
    "78fd64fb53aa40049238a35329e1d7f5",
    "c2fd5fabea1f4a9496dc8c73febdee2d",
    "4a94192e85ca4d43833e986cf12ee765",
    "d6b2dd0856e34daa960ac73fd0622e1d",
    "e7f7515632e842268d3cfee73e0e07d4",
    "da7244822b9c494586136099424a76b0",
    "3fbd913a87cc46278e77dc942e14822a",
    "ed5724392cfb459c9935bf0478fa7c82",
    "76481855fa67425d92fcdaac1cf01e37"
>>

\* A format string is a list of tokens.  A replacement field '{name:spec}' is
\* the four tokens "{", name, ":spec" ("" when the field has no spec), "}".  The
\* other tokens are literal text, in which '{{' and '}}' stand for one brace.
Field(name, spec) == <<"{", name, spec, "}">>

\* base_template (lines 243-270): the fields of lines 248-251 are written with
\* single braces, those of lines 254 and 264-266 with doubled ones
base_template ==
    <<"%YAML 1.1\n%TAG !u! tag:unity3d.com,2011:\n--- !u!114 &11400000\nMonoBehaviour:\n  m_ObjectHideFlags: 0\n  m_CorrespondingSourceObject: ">>
    \o Field("fileID", ": 0") \o <<"\n  m_PrefabInstance: ">>
    \o Field("fileID", ": 0") \o <<"\n  m_PrefabAsset: ">>
    \o Field("fileID", ": 0") \o <<"\n  m_GameObject: ">>
    \o Field("fileID", ": 0")
    \o <<"\n  m_Enabled: 1\n  m_EditorHideFlags: 0\n  m_Script: ",
         "{{fileID: ", "11500000, guid: 0fed08878a38d04459f1f2881b12ea1e, type: 3", "}}",
         "\n  m_Name: Block_">> \o Field("name", "")
    \o <<"\n  m_EditorClassIdentifier: \n  blockId: ">> \o Field("id", "")
    \o <<"\n  blockName: ">> \o Field("name", "")
    \o <<"\n  isSolid: ">> \o Field("solid", "")
    \o <<"\n  isTransparent: ">> \o Field("transparent", "")
    \o <<"\n  topTileIndex: ">> \o Field("top", "")
    \o <<"\n  bottomTileIndex: ">> \o Field("bottom", "")
    \o <<"\n  sideTileIndex: ">> \o Field("side", "")
    \o <<"\n  ", "topTexture: ", "{{fileID: ", "0", "}}",
         "\n  ", "sideTexture: ", "{{fileID: ", "0", "}}",
         "\n  ", "bottomTexture: ", "{{fileID: ", "0", "}}",
         "\n  lightEmission: ">> \o Field("emission", "")
    \o <<"\n  hardness: ">> \o Field("hardness", "")
    \o <<"\n  preferredToolType: ">> \o Field("tool", "") \o <<"\n">>

\* base_meta_template (lines 272-279)
base_meta_template ==
    <<"fileFormatVersion: 2\nguid: ">> \o Field("guid", "")
    \o <<"\nNativeFormatImporter:\n  externalObjects: ", "{{", "}}",
         "\n  mainObjectFileID: 11400000\n  userData: \n  assetBundleName: \n  assetBundleVariant: ">>

\* literal text as str.format writes it
Unescape(tok) ==
    IF tok = "{{fileID: " THEN "{fileID: "
    ELSE IF tok = "{{" THEN "{"
    ELSE IF tok = "}}" THEN "}"
    ELSE tok

\* the positions of the replacement fields of a format string
FieldStarts(template) == { i \in 1..Len(template) : template[i] = "{" }

\* the text of a format string all of whose fields name a key of kwargs (no
\* such field of the two templates has a format spec)
RECURSIVE FormatFrom(_, _, _)
FormatFrom(template, i, kwargs) ==
    IF i > Len(template) THEN <<>>
    ELSE IF template[i] = "{"
         THEN <<kwargs[template[i + 1]]>> \o FormatFrom(template, i + 4, kwargs)
         ELSE <<Unescape(template[i])>> \o FormatFrom(template, i + 1, kwargs)

\* template.format(**kwargs): the exception raised ("" when none) and the text;
\* a field whose name is no key of kwargs raises KeyError
Format(template, kwargs) ==
    IF \E i \in FieldStarts(template) : template[i + 1] \notin DOMAIN kwargs
    THEN [raised |-> "KeyError", text |-> <<>>]
    ELSE [raised |-> "", text |-> FormatFrom(template, 1, kwargs)]

\* open(path, "w") followed by f.write(text): the file is created or truncated,
\* then holds text
WriteFile(fs, path, text) ==
    [f \in (DOMAIN fs) \cup {path} |-> IF f = path THEN text ELSE fs[f]]

\* one iteration of "for block, guid in zip(blocks, guids)", with the final
\* print after the last one.  open(asset_path, "w") has created or emptied the
\* file when the argument of f.write is evaluated, so an exception raised by
\* format leaves the file empty and ends the script.
GenWrite ==
    /\ gpc = "loop"
    /\ bi < Min(Len(blocks), Len(guids))
    /\ LET block == blocks[bi + 1]
           asset_path == <<"Block_", block.name, ".asset">>
           meta_path == asset_path \o <<".meta">>
           a == Format(base_template, block)
           m == Format(base_meta_template, [guid |-> guids[bi + 1]])
           last == bi + 1 = Min(Len(blocks), Len(guids))
       IN  IF a.raised # ""
           THEN /\ assets' = WriteFile(assets, asset_path, <<>>)
                /\ gerror' = a.raised
                /\ gpc' = "raised"
                /\ gruns' = gruns + 1
                /\ bi' = bi
           ELSE IF m.raised # ""
           THEN /\ assets' = WriteFile(WriteFile(assets, asset_path, a.text \o <<"\n">>),
                                       meta_path, <<>>)
                /\ gerror' = m.raised
                /\ gpc' = "raised"
                /\ gruns' = gruns + 1
                /\ bi' = bi
           ELSE /\ assets' = WriteFile(WriteFile(assets, asset_path, a.text \o <<"\n">>),
                                       meta_path, m.text \o <<"\n">>)
                /\ gerror' = ""
                /\ gpc' = IF last THEN "done" ELSE "loop"
                /\ gruns' = IF last THEN gruns + 1 ELSE gruns
                /\ bi' = bi + 1
    /\ UNCHANGED <<apc, textures, metas, guid_map, gi, error, stdout, fidx,
                   updated, skipped, aruns, written>>
    /\ UNCHANGED notGenAssign

\* assign_textures.py is run once generate_block_assets.py has ended
RunAssign ==
    /\ gpc \in {"raised", "done"}
    /\ apc = "idle"
    /\ apc' = "build"
    /\ UNCHANGED <<textures, metas, guid_map, gi, error, stdout, assets, fidx,
                   updated, skipped, aruns, written>>
    /\ UNCHANGED genVars
    /\ UNCHANGED notGenAssign

\* generate_block_assets.py is run again after assign_textures.py
RunGenerateAgain ==
    /\ apc = "done"
    /\ gpc \in {"raised", "done"}
    /\ gruns < MaxRuns
    /\ gpc' = "loop"
    /\ bi' = 0
    /\ gerror' = ""
    /\ UNCHANGED gruns
    /\ UNCHANGED assignVars
    /\ UNCHANGED notGenAssign

\* the names of the files the write loop names
GeneratedAssetNames == { <<"Block_", n, ".asset">> : n \in GeneratedBlocks }
GeneratedMetaNames == { <<"Block_", n, ".asset", ".meta">> : n \in GeneratedBlocks }

\* the script is started on a directory that holds the files of dir; the
\* textures but those of absent exist, each with a .meta that gives its GUID
GenEntry(absent, dir) ==
    /\ gpc = "loop"
    /\ bi = 0
    /\ gerror = ""
    /\ gruns = 0
    /\ apc = "idle"
    /\ textures = Tiles \ absent
    /\ metas = MetaFiles(-1, "none")
    /\ guid_map = <<>>
    /\ gi = 0
    /\ error = ""
    /\ stdout = <<>>
    /\ assets = [f \in dir |-> InitialAssets[f]]
    /\ fidx = 0
    /\ updated = 0
    /\ skipped = 0
    /\ aruns = 0
    /\ written = {}

\* the directories explored: with the block files of an earlier generation, or
\* without any of them
GenStart ==
    \E absent \in TileSetsUpTo(MaxAbsent) :
        \E dir \in {DOMAIN InitialAssets, (DOMAIN InitialAssets) \ GeneratedAssetNames} :
            GenEntry(absent, dir)

GenIdle ==
    /\ gpc = "idle"
    /\ bi = 0
    /\ gerror = ""
    /\ gruns = 0

GenAssignStep ==
    \/ GenWrite
    \/ RunAssign
    \/ BuildStep
    \/ BuildDone
    \/ MainStep
    \/ MainDone
    \/ RunGenerateAgain

(***************************************************************************)
(* Specifications: one per script                                          *)
(***************************************************************************)
\* a script that is not run
CrackIdle == CrackEntry("direct", "any", 0, 1, 1)
TexIdle == TexInit

CrackInit == CrackStart /\ TexIdle /\ RegIdle /\ AssignIdle /\ GenIdle
CrackNext == CrackStep
SpecCrack == CrackInit /\ [][CrackNext]_vars

TexturesInit == TexInit /\ CrackIdle /\ RegIdle /\ AssignIdle /\ GenIdle
TexturesNext == TexStep
SpecTextures == TexturesInit /\ [][TexturesNext]_vars

RegistryInit == RegInit /\ CrackIdle /\ TexIdle /\ AssignIdle /\ GenIdle
RegistryNext == RegStep
SpecRegistry == RegistryInit /\ [][RegistryNext]_vars

AssignInit == AssignStart /\ CrackIdle /\ TexIdle /\ RegIdle /\ GenIdle
AssignNext == AssignStep
SpecAssign == AssignInit /\ [][AssignNext]_vars

GenAssignInit == GenStart /\ CrackIdle /\ TexIdle /\ RegIdle
GenAssignNext == GenAssignStep
SpecGenerateAssign == GenAssignInit /\ [][GenAssignNext]_vars

(***************************************************************************)
(* Properties of generate_crack_sprites.py                                 *)
(***************************************************************************)
\* img.getpixel((cx, cy))[3] > 0
OpaquePixels(img) == { p \in DOMAIN img : img[p] > 0 }

PatternReturned == cpc \in {"returned", "stages", "done"}

\* C1: the crack sprites are progressively denser: for stages s < t the set of
\* pixels with alpha > 0 of crack_stage_s is a strict subset of that of
\* crack_stage_t, whatever the random calls returned.
C1_ProgressivelyDenser ==
    \A s \in 1..Len(sprites) : \A t \in 1..Len(sprites) :
        s < t => /\ OpaquePixels(sprites[s]) \subseteq OpaquePixels(sprites[t])
                 /\ OpaquePixels(sprites[s]) # OpaquePixels(sprites[t])

C1_Witness ==
    /\ cpc = "done"
    /\ Len(sprites) = 10
    /\ OpaquePixels(sprites[1]) # {}
    /\ OpaquePixels(sprites[1]) \subseteq OpaquePixels(sprites[10])

\* C9: generate_full_crack_pattern returns a permutation of the tile's pixels:
\* width*height entries, each inside the tile, none twice.
C9_PatternIsPermutation ==
    PatternReturned =>
        /\ Len(pattern) = width * height
        /\ \A i \in 1..Len(pattern) :
              /\ 0 <= pattern[i][1] /\ pattern[i][1] < width
              /\ 0 <= pattern[i][2] /\ pattern[i][2] < height
        /\ \A i \in 1..Len(pattern) : \A j \in 1..Len(pattern) :
              pattern[i] = pattern[j] => i = j

\* a returned pattern whose walks listed some pixels and whose fill listed the rest
C9_Witness ==
    /\ PatternReturned
    /\ Cardinality(visited) > 4
    /\ Cardinality(visited) < Len(pattern)
    /\ Len(pattern) = width * height

\* C10: crack_stage_k has exactly floor(256 * pct_k) pixels with alpha > 0:
\* 15, 25, 38, 53, 71, 89, 107, 128, 148, 166 for stages 0..9.
C10_OpaqueCounts ==
    \A k \in 1..Len(sprites) :
        /\ Cardinality(OpaquePixels(sprites[k]))
              = <<15, 25, 38, 53, 71, 89, 107, 128, 148, 166>>[k]
        /\ Cardinality(OpaquePixels(sprites[k])) = (256 * StagePct[k]) \div 100

C10_Witness ==
    /\ Len(sprites) = 10
    /\ Cardinality(OpaquePixels(sprites[1])) = 15
    /\ Cardinality(OpaquePixels(sprites[10])) = 166

(***************************************************************************)
(* Properties of generate_textures.py                                      *)
(***************************************************************************)
\* the pixel create_tile leaves at (px, py) of the tile of TEXTURES entry t
ExpectedTilePixel(t, px, py) ==
    IF t.color1 # Absent
    THEN (IF py < 8 THEN t.color1 ELSE t.color2) \o <<255>>
    ELSE t.color \o <<255>>

\* C8: the tile of index i is pasted at column i % 16 and at row i // 16 counted
\* from the bottom (atlas_y = 240 - 16 * (i // 16)); every pasted 16x16 cell lies
\* inside the 256x256 atlas, the cells of distinct indices do not overlap, and
\* no pasted tile has been overwritten.
C8_AtlasCells ==
    \A k \in 1..Len(pasted) :
        LET i == pasted[k][1]
            ax == pasted[k][2]
            ay == pasted[k][3]
        IN  /\ i = TEXTURES[k].index
            /\ ax = 16 * (i % 16)
            /\ ay = 240 - 16 * (i \div 16)
            /\ 0 <= ax /\ ax + 16 <= 256
            /\ 0 <= ay /\ ay + 16 <= 256
            /\ \A m \in 1..Len(pasted) :
                  pasted[m][1] # i =>
                     \/ ax + 16 <= pasted[m][2] \/ pasted[m][2] + 16 <= ax
                     \/ ay + 16 <= pasted[m][3] \/ pasted[m][3] + 16 <= ay
            /\ tpc # "tile" =>
                  \A p \in (0..15) \X (0..15) :
                     /\ <<ax + p[1], ay + p[2]>> \in DOMAIN block_atlas
                     /\ block_atlas[<<ax + p[1], ay + p[2]>>]
                           = ExpectedTilePixel(TEXTURES[k], p[1], p[2])

\* tiles have been pasted in the bottom row and in the row above it
C8_Witness ==
    /\ tpc = "loop"
    /\ Len(pasted) >= 17
    /\ \E k \in 1..Len(pasted) : pasted[k][1] >= 16 /\ pasted[k][3] = 224

(***************************************************************************)
(* Properties of update_block_registry.py                                  *)
(***************************************************************************)
\* a line of the form "- {fileID: 11400000, guid: G, type: 2}" once stripped
IsEntryLine(l) ==
    LET s == Strip(l)
    IN  Len(s) = 3 /\ s[1] = "- {fileID: 11400000, guid: " /\ s[3] = ", type: 2}"

\* index of the first line equal to "definitions:" after stripping, 0 when none
FirstDefinitions(ls) ==
    IF \E d \in 1..Len(ls) : Strip(ls[d]) = <<"definitions:">>
    THEN CHOOSE d \in 1..Len(ls) :
            /\ Strip(ls[d]) = <<"definitions:">>
            /\ \A e \in 1..(d - 1) : Strip(ls[e]) # <<"definitions:">>
    ELSE 0

\* the line at index d is followed by exactly n entry lines
FollowedByEntries(ls, d, n) ==
    /\ d + n <= Len(ls)
    /\ \A j \in 1..n : IsEntryLine(ls[d + j])
    /\ d + n + 1 <= Len(ls) => ~IsEntryLine(ls[d + n + 1])

\* C5: run on a scene whose first "definitions:" line is followed by exactly 7
\* entry lines, the script leaves that list with exactly 25 entries
\* "  - {fileID: 11400000, guid: G, type: 2}", the 7 existing GUIDs followed by
\* the 18 new ones in table order, and every other line unchanged.
C5_TwentyFiveEntries ==
    LET before == ReadLines(scene0)
        after == ReadLines(scene)
        d == FirstDefinitions(before)
    IN  (rpc = "done" /\ runs = 1 /\ d > 0 /\ FollowedByEntries(before, d, 7)) =>
            /\ Len(after) = Len(before) + 18
            /\ FollowedByEntries(after, d, 25)
            /\ \A k \in 1..7 :
                  after[d + k] = <<" ", " ", "- {fileID: 11400000, guid: ",
                                   existing_guids[k], ", type: 2}", "\n">>
            /\ \A k \in 1..18 :
                  after[d + 7 + k] = <<" ", " ", "- {fileID: 11400000, guid: ",
                                       new_block_guids[k], ", type: 2}", "\n">>
            /\ \A j \in 1..d : after[j] = before[j]
            /\ \A j \in (d + 8)..Len(before) : after[j + 18] = before[j]

\* such a scene, with lines before and after the list and GUIDs of its own
C5_Witness ==
    LET before == ReadLines(scene0)
        d == FirstDefinitions(before)
    IN  /\ rpc = "done" /\ runs = 1
        /\ d > 1
        /\ FollowedByEntries(before, d, 7)
        /\ Len(before) > d + 7
        /\ before[d + 1] # EntryLine(existing_guids[1])
        /\ scene # scene0

\* C6: running the script a second time on the file its first run produced
\* leaves the file unchanged.
C6_RerunLeavesFileUnchanged ==
    [][(rpc = "write" /\ runs = 1) => scene' = scene]_vars

(***************************************************************************)
(* Properties of Tools/assign_textures.py                                  *)
(***************************************************************************)
\* the tokens that end a field of an asset text
FieldEnds == {"\n  ", "\n  lightEmission, hardness, preferredToolType\n",
              "\n  lightEmission: "}

\* the value of the field whose key is token i: the tokens up to the end of the line
FieldValue(content, i) ==
    LET e == IF \E j \in (i + 1)..Len(content) : content[j] \in FieldEnds
             THEN CHOOSE j \in (i + 1)..Len(content) :
                     /\ content[j] \in FieldEnds
                     /\ \A k \in (i + 1)..(j - 1) : content[k] \notin FieldEnds
             ELSE Len(content) + 1
    IN  SubSeq(content, i + 1, e - 1)

\* the values of the fields of key in the text
FieldValues(content, key) ==
    { FieldValue(content, i) : i \in { j \in 1..Len(content) : content[j] = key } }

TextureKeys == <<"topTexture: ", "sideTexture: ", "bottomTexture: ">>

\* '{fileID: 0}', or '{fileID: 2800000, guid: G, type: 3}' for some G
IsNullOrPopulated(v) ==
    \/ v = <<"{fileID: ", "0", "}">>
    \/ /\ Len(v) = 5
       /\ v[1] = "{fileID: " /\ v[2] = "2800000, guid: " /\ v[4] = ", type: 3" /\ v[5] = "}"

\* the asset text has each texture field once, holding a null or populated reference
WellFormedAsset(content) ==
    \A k \in 1..3 :
        /\ Cardinality({ j \in 1..Len(content) : content[j] = TextureKeys[k] }) = 1
        /\ \A v \in FieldValues(content, TextureKeys[k]) : IsNullOrPopulated(v)

AssetFileOf(b) == b \o <<".asset">>

\* the block files of BLOCKS_DIR for which update_asset returned True in this run
ReturnedTrue == { b \in DOMAIN BLOCK_TILE_MAP : <<"OK", Join(b)>> \in Range(stdout) }

\* C2: when update_asset returns True, every topTexture, sideTexture and
\* bottomTexture field of the file holds '{fileID: 2800000, guid: G, type: 3}',
\* G the GUID guid_map gives for the block's top, side and bottom tile, whether
\* the field held the null reference or a populated one before.
C2_FieldsHoldMappedGuids ==
    \A b \in ReturnedTrue :
        WellFormedAsset(InitialAssets[AssetFileOf(b)]) =>
            \A k \in 1..3 :
                /\ BLOCK_TILE_MAP[b][k] \in DOMAIN guid_map
                /\ FieldValues(assets[AssetFileOf(b)], TextureKeys[k])
                     = { <<"{fileID: ", "2800000, guid: ",
                           guid_map[BLOCK_TILE_MAP[b][k]], ", type: 3", "}">> }

\* a block with three different tiles whose fields were populated, and one whose
\* fields were null, have been updated
C2_Witness ==
    /\ aruns = 0
    /\ {<<"Block_", "Grass">>, <<"Block_", "Sandstone">>} \subseteq ReturnedTrue
    /\ FieldValues(InitialAssets[<<"Block_", "Grass", ".asset">>], "sideTexture: ")
          = { StaleRef }
    /\ FieldValues(assets[<<"Block_", "Grass", ".asset">>], "sideTexture: ")
          = { <<"{fileID: ", "2800000, guid: ", TileGuids[27], ", type: 3", "}">> }
    /\ FieldValues(assets[<<"Block_", "Sandstone", ".asset">>], "bottomTexture: ")
          = { <<"{fileID: ", "2800000, guid: ", TileGuids[30], ", type: 3", "}">> }

\* the blocks of BLOCK_TILE_MAP, Block_Air excepted, whose file is in BLOCKS_DIR
TexturedBlocks ==
    { b \in DOMAIN BLOCK_TILE_MAP :
        b # <<"Block_", "Air">> /\ AssetFileOf(b) \in DOMAIN assets }

\* the files main passes to update_asset
BlockAssetFiles == { f \in DOMAIN assets : IsBlockAsset(f) }

TilesOfBlock(b) == { BLOCK_TILE_MAP[b][k] : k \in 1..3 }

\* the tiles build_guid_map omitted: their texture file is absent
OmittedTiles == Tiles \ textures

\* the tiles whose .meta gives an empty GUID
EmptyGuidTiles == { t \in DOMAIN guid_map : guid_map[t] = "" }

\* a finished run of main in which the blocks with a tile in "without" were left
\* unmodified and counted as skipped and all the other textured blocks updated
SkippedExactly(without) ==
    /\ error = ""
    /\ \A t \in OmittedTiles :
          /\ t \notin DOMAIN guid_map
          /\ <<"WARNING", TILE_FILES[t + 1]>> \in Range(stdout)
    /\ \A b \in TexturedBlocks :
          IF TilesOfBlock(b) \cap without # {}
          THEN /\ assets[AssetFileOf(b)] = InitialAssets[AssetFileOf(b)]
               /\ b \notin ReturnedTrue
          ELSE b \in ReturnedTrue
    /\ updated = Cardinality({ b \in TexturedBlocks : TilesOfBlock(b) \cap without = {} })
    /\ skipped = Cardinality(BlockAssetFiles) - updated

HasGuidLine(text) ==
    \E k \in 1..Len(ReadLines(text)) : StartsWith(Strip(ReadLines(text)[k]), "guid:")

\* the run stopped at tile t with the exception e, or has not reached tile t
StopsAt(t, e) ==
    \/ apc = "build" /\ gi <= t /\ error = ""
    \/ apc = "raised" /\ gi = t /\ error = e

\* C4: if a texture file exists but its .meta is missing (FileNotFoundError) or
\* has no line starting with "guid:" (ValueError), the run ends with that
\* exception and no block asset has been modified.
C4_BadMetaAbortsBeforeAnyWrite ==
    /\ \A t \in textures :
          /\ t \notin DOMAIN metas => StopsAt(t, "FileNotFoundError")
          /\ (t \in DOMAIN metas /\ ~HasGuidLine(metas[t])) => StopsAt(t, "ValueError")
    /\ error # "" => (apc = "raised" /\ assets = InitialAssets /\ updated = 0)
    /\ apc = "raised" => error \in {"FileNotFoundError", "ValueError"}

\* the run was ended by a missing .meta after other textures had been read
C4_Witness ==
    /\ apc = "raised"
    /\ error = "FileNotFoundError"
    /\ gi = 5
    /\ 5 \in textures /\ 5 \notin DOMAIN metas
    /\ DOMAIN guid_map = 0..4
    /\ assets = InitialAssets

\* C7: applying update_asset a second time with the same guid_map leaves every
\* asset file as the first application left it.
C7_SecondRunChangesNothing ==
    [][aruns >= 1 => assets' = assets]_vars

\* the second run has ended, and the first one had changed files
C7_Witness ==
    /\ apc = "done"
    /\ aruns = 2
    /\ updated > 0
    /\ assets # InitialAssets
    /\ assets[<<"Block_", "Stone", ".asset">>] # InitialAssets[<<"Block_", "Stone", ".asset">>]

\* the text between a '{' that directly follows a texture key and the first '}'
\* after it is the reference value of the key; Skeleton is the text with every
\* such value blanked
BraceOpeners == {"{fileID: ", "{instanceID: 0"}

RECURSIVE SkeletonFrom(_, _)
SkeletonFrom(content, i) ==
    IF i > Len(content) THEN <<>>
    ELSE IF /\ content[i] \in Range(TextureKeys)
            /\ i + 1 <= Len(content)
            /\ content[i + 1] \in BraceOpeners
            /\ \E j \in (i + 2)..Len(content) : content[j] = "}"
         THEN <<content[i], "{...}">>
                 \o SkeletonFrom(content, 1 + CHOOSE j \in (i + 2)..Len(content) :
                        content[j] = "}" /\ \A k \in (i + 2)..(j - 1) : content[k] # "}")
         ELSE <<content[i]>> \o SkeletonFrom(content, i + 1)

Skeleton(content) == SkeletonFrom(content, 1)

\* the step is a call of update_asset that returned False
ReturnsFalse ==
    /\ apc = "list"
    /\ Len(stdout') = Len(stdout) + 1
    /\ stdout'[Len(stdout')][1] # "OK"

\* the step is the call of update_asset on file f, and it returned True
ReturnsTrueOn(f) ==
    /\ apc = "list"
    /\ IsBlockAsset(f)
    /\ stdout' = Append(stdout, <<"OK", Join(BlockNameOf(f))>>)

\* C12: update_asset changes no text of the asset file other than the
\* brace-delimited reference value that follows 'topTexture: ', 'sideTexture: '
\* or 'bottomTexture: ', creates and removes no file, touches no file but the
\* one it is called on, and when it returns False (block not in BLOCK_TILE_MAP,
\* Block_Air, a GUID missing or empty) it does not open the file for writing.
C12_OnlyReferenceValuesChange ==
    [][/\ DOMAIN assets' = DOMAIN assets
       /\ \A f \in DOMAIN assets :
             /\ assets'[f] # assets[f] => Skeleton(assets'[f]) = Skeleton(assets[f])
             /\ (assets'[f] # assets[f] \/ f \in written' \ written) => ReturnsTrueOn(f)
       /\ ReturnsFalse => (assets' = assets /\ written' = written)]_vars

\* a run in which update_asset returned False for each of its three reasons and
\* rewrote the references of another block
C12_Witness ==
    /\ apc = "done"
    /\ aruns = 1
    /\ <<"SKIP: not in tile map", "Block_Lava">> \in Range(stdout)
    /\ <<"SKIP: Air", "Block_Air">> \in Range(stdout)
    /\ <<"ERROR: Missing GUID", "Block_Grass">> \in Range(stdout)
    /\ <<"OK", "Block_Dirt">> \in Range(stdout)
    /\ <<"Block_", "Dirt", ".asset">> \in written
    /\ written \cap {<<"Block_", "Lava", ".asset">>, <<"Block_", "Air", ".asset">>,
                     <<"Block_", "Grass", ".asset">>} = {}
    /\ assets[<<"Block_", "Dirt", ".asset">>] # InitialAssets[<<"Block_", "Dirt", ".asset">>]
    /\ Skeleton(assets[<<"Block_", "Dirt", ".asset">>])
          = Skeleton(InitialAssets[<<"Block_", "Dirt", ".asset">>])

(***************************************************************************)
(* Properties of generate_block_assets.py followed by assign_textures.py   *)
(***************************************************************************)
\* the file the write loop names for blocks[i], and the tile index blocks[i]
\* gives for TextureKeys[k] (the template writes it as topTileIndex,
\* sideTileIndex, bottomTileIndex of that file)
GeneratedFile(i) == <<"Block_", blocks[i].name, ".asset">>
TileIndexOf(i, k) == BlockRows[i][4 + k]

\* the file of blocks[i] exists and each of its three texture fields holds ref[k]
HoldsReferences(i, ref(_)) ==
    /\ GeneratedFile(i) \in DOMAIN assets
    /\ \A k \in 1..3 :
          FieldValues(assets[GeneratedFile(i)], TextureKeys[k]) = { ref(k) }

\* C11: after generate_block_assets and then assign_textures, with a GUID for
\* all 31 tiles, each of the 18 generated files holds three non-null texture
\* references whose GUIDs are those of its top, side and bottom tile and none of
\* the 18 was skipped; after generate_block_assets is run again, the three
\* fields of each of the 18 files hold '{fileID: 0}'.
C11_GeneratedThenAssigned ==
    /\ (gruns = 1 /\ gpc # "loop" /\ apc = "done" /\ textures = Tiles) =>
          \A i \in DOMAIN blocks :
              /\ HoldsReferences(i, LAMBDA k : MakeTexRef(TileGuids[TileIndexOf(i, k) + 1]))
              /\ <<"OK", "Block_" \o blocks[i].name>> \in Range(stdout)
    /\ (gruns = 2 /\ gpc # "loop") =>
          \A i \in DOMAIN blocks : HoldsReferences(i, LAMBDA k : NullRef)

====
